---- MODULE Spec2Model ----
(***************************************************************************)
(* Semaphore (src/src/semaphore/semaphore.ts) and the Mutex built on it    *)
(* (src/src/mutex/mutex.ts), as a state machine.                           *)
(*                                                                         *)
(* JavaScript runs every method and every timer callback to completion, so *)
(* each method call and each `setTimeout` callback is one atomic action.   *)
(* A promise returned by acquire/tryAcquire is a "call": calls[i] keeps    *)
(* its settlement and the closure variables its timer callback reads.      *)
(***************************************************************************)
EXTENDS Integers, Sequences, FiniteSets, TLC

\* Bounds of the model
MaxCalls == 2        \* acquire/tryAcquire calls issued in one run
MaxInitPermits == 1  \* largest `permits` given to the constructor
MaxArg == 2          \* largest `permits` argument of a method
MaxPermits == 2      \* release is not called once the counter would pass it
MaxLocks == 3        \* lock/tryLock calls issued in one run of the mutex
MaxWaiters == 3      \* calls queued in one run of the waiters
MaxReads == 2        \* read/tryRead calls issued in one run
MaxItems == 3        \* items given to a ProducerConsumer in one run

VARIABLES
    permits,   \* Semaphore.permits
    queue,     \* Semaphore.queue: the queued items, as call ids, head first
    calls,     \* every promise returned by acquire/tryAcquire, in call order
    hist,      \* per call: what the caller saw when it called, and since
    holders,   \* Mutex: calls that obtained the lock and did not unlock yet
    last,      \* the operation that made the last step
    sections,  \* Mutex: the lockWith/tryLockWith calls, in call order
    items,     \* ProducerConsumer.items: the buffer, oldest item first
    reads,     \* ProducerConsumer: what each read call returned, per call
    written,   \* ProducerConsumer: number of items given to it so far
    due        \* ProducerConsumer: reads whose acquire resolved, in that
               \* order, and whose continuation has not run yet

vars == <<permits, queue, calls, hist, holders, last, sections, items, reads,
          written, due>>

\* the state of the classes built on the semaphore
wrappers == <<sections, items, reads, written, due>>

\* the state of the ProducerConsumer
buffer == <<items, reads, written, due>>

Reasons == {"r1", "r2"}
NoReason == "none"

\* an optional argument: <<>> when omitted, <<v>> when given
Opt(S) == {<<>>} \cup {<<v>> : v \in S}
Param(a, default) == IF a = <<>> THEN default ELSE a[1]

\* the `permits` and `timeout` arguments the callers give
PermitArgs == 0 .. MaxArg
Timeouts == {0}

\* the same with a value the methods refuse
AnyPermits == {-1, 1, 2}
AnyTimeouts == {-1, 0}

----------------------------------------------------------------------------
\* The semaphore state the methods work on
Sem == [permits |-> permits, queue |-> queue, calls |-> calls]

\* A promise returned by acquire/tryAcquire and the closure of its executor.
\*   state/error/reason : the settlement of the returned promise
\*   units              : number of per-permit promises given to Promise.all
\*   unitsResolved      : how many of them were resolved
\*   resolvers          : item.resolvers.length
\*   permitsBck, permitsRemaining : constants of tryAcquire's closure
\*   timer              : the setTimeout of tryAcquire
NewCall(kind, n) ==
    [kind |-> kind, n |-> n, state |-> "pending", error |-> "none",
     reason |-> NoReason, units |-> 0, unitsResolved |-> 0, resolvers |-> 0,
     permitsBck |-> 0, permitsRemaining |-> 0, timer |-> "none"]

\* Promise.resolve()
Fulfilled(c) == [c EXCEPT !.state = "fulfilled"]

\* Promise.reject(error) / reject(error): settles a pending promise only
Reject(c, error, reason) ==
    IF c.state = "pending"
    THEN [c EXCEPT !.state = "rejected", !.error = error, !.reason = reason]
    ELSE c

\* CallResolvers fulfilling the call with its first resolved unit
CallResolversEarly(c, k) ==
    LET done == c.unitsResolved + k
    IN  [c EXCEPT !.unitsResolved = done,
                  !.state = IF done >= 1 /\ c.state = "pending"
                            THEN "fulfilled" ELSE c.state]

\* One resolver of the item is called: Promise.all(...).then(() => resolve())
\* fulfils the call once every per-permit promise is resolved.
CallResolvers(c, k) ==
    LET done == c.unitsResolved + k
    IN  [c EXCEPT !.unitsResolved = done,
                  !.state = IF done = c.units /\ c.state = "pending"
                            THEN "fulfilled" ELSE c.state]

\* acquireLock putting the new item at the head of the queue
acquireLockFront(s, c, n, timed) ==
    LET id == Len(s.calls) + 1
        item == [c EXCEPT !.units = n, !.resolvers = n,
                          !.timer = IF timed THEN "armed" ELSE "none"]
    IN  [s EXCEPT !.queue = <<id>> \o @, !.calls = Append(@, item)]

\* acquireLock(permits, afterInit): a new item with `permits` resolvers is
\* pushed at the end of the queue; afterInit (tryAcquire) arms the timer.
acquireLock(s, c, n, timed) ==
    LET id == Len(s.calls) + 1
        item == [c EXCEPT !.units = n, !.resolvers = n,
                          !.timer = IF timed THEN "armed" ELSE "none"]
    IN  [s EXCEPT !.queue = Append(@, id), !.calls = Append(@, item)]

\* UsePermits taking every requested permit from the counter
UsePermitsAll(p, n) == <<p - n, 0>>

\* UsePermits that leaves the counter alone
UsePermitsNone(p, n) == <<p, n>>

\* the loop of acquire: `while (this.permits > 0 && permits)`
RECURSIVE UsePermits(_, _)
UsePermits(p, n) ==
    IF p > 0 /\ n # 0 THEN UsePermits(p - 1, n - 1) ELSE <<p, n>>

\* The error a method reports for its arguments before it does anything
\* ("none" when they are valid); the promise of acquire/tryAcquire is then
\* rejected at once and no call is recorded.
acquireError(n) == IF n < 0 THEN "invalidPermits" ELSE "none"
tryAcquireError(timeout, n) ==
    IF timeout < 0 THEN "invalidTimeout"
    ELSE IF n < 0 THEN "invalidPermits"
    ELSE "none"
releaseError(n) == IF n < 0 THEN "invalidPermits" ELSE "none"

\* Semaphore.acquire(permits = 1)
acquire(s, arg) ==
    LET n == Param(arg, 1)
        c == NewCall("acquire", n)
    IN  IF n < 0
        THEN s
        ELSE LET r == UsePermits(s.permits, n)
                 s1 == [s EXCEPT !.permits = r[1]]
             IN  IF r[2] = 0
                 THEN [s1 EXCEPT !.calls = Append(@, Fulfilled(c))]
                 ELSE acquireLock(s1, c, r[2], FALSE)

\* tryAcquire looking at the counter before it checks `permits`
tryAcquireLate(s, timeout, arg) ==
    LET n == Param(arg, 1)
        c == NewCall("tryAcquire", n)
    IN  IF timeout < 0
        THEN s
        ELSE IF n <= s.permits
        THEN [s EXCEPT !.permits = @ - n, !.calls = Append(@, Fulfilled(c))]
        ELSE IF n < 0
        THEN s
        ELSE LET permitsRemaining == n - s.permits
                 permitsBck == s.permits
                 c1 == [c EXCEPT !.permitsBck = permitsBck,
                                 !.permitsRemaining = permitsRemaining]
             IN  acquireLock([s EXCEPT !.permits = 0], c1, permitsRemaining, TRUE)

\* tryAcquire starting its timer before it looks at the counter
tryAcquireTimed(s, timeout, arg) ==
    LET n == Param(arg, 1)
        c == NewCall("tryAcquire", n)
    IN  IF timeout < 0 \/ n < 0
        THEN s
        ELSE IF n <= s.permits
        THEN [s EXCEPT !.permits = @ - n,
                       !.calls = Append(@, [Fulfilled(c) EXCEPT !.timer = "armed"])]
        ELSE LET permitsRemaining == n - s.permits
                 permitsBck == s.permits
                 c1 == [c EXCEPT !.permitsBck = permitsBck,
                                 !.permitsRemaining = permitsRemaining]
             IN  acquireLock([s EXCEPT !.permits = 0], c1, permitsRemaining, TRUE)

\* Semaphore.tryAcquire(timeout, permits = 1)
tryAcquire(s, timeout, arg) ==
    LET n == Param(arg, 1)
        c == NewCall("tryAcquire", n)
    IN  IF timeout < 0 \/ n < 0
        THEN s
        ELSE IF n <= s.permits
        THEN [s EXCEPT !.permits = @ - n, !.calls = Append(@, Fulfilled(c))]
        ELSE LET permitsRemaining == n - s.permits
                 permitsBck == s.permits
                 c1 == [c EXCEPT !.permitsBck = permitsBck,
                                 !.permitsRemaining = permitsRemaining]
             IN  acquireLock([s EXCEPT !.permits = 0], c1, permitsRemaining, TRUE)

\* index of the item in the queue (findIndex), 0 when absent
RECURSIVE FindIndex(_, _, _)
FindIndex(q, id, k) ==
    IF k > Len(q) THEN 0
    ELSE IF q[k] = id THEN k
    ELSE FindIndex(q, id, k + 1)

\* queue.splice(0, 1): the head of the queue whatever the index
SpliceHead(q, index) == Tail(q)

\* queue.splice(index): the item and everything behind it
SpliceFrom(q, index) == SubSeq(q, 1, index - 1)

\* queue.splice(index, 1)
Splice(q, index) ==
    [k \in 1 .. Len(q) - 1 |-> IF k < index THEN q[k] ELSE q[k + 1]]

\* RolledBack without the permits reserved at the call
RolledBackNoBck(c) == c.permitsRemaining - c.resolvers

\* The permits the timer callback of call `id` gives back to the counter
RolledBack(c) == c.permitsBck + (c.permitsRemaining - c.resolvers)

\* the callback giving the permits back without rejecting the call
timeoutCallbackSilent(s, id) ==
    LET c == s.calls[id]
        index == FindIndex(s.queue, id, 1)
    IN  [permits |-> s.permits + RolledBack(c),
         queue |-> IF index >= 1 THEN Splice(s.queue, index) ELSE s.queue,
         calls |-> [s.calls EXCEPT ![id].timer = "fired"]]

\* the callback rejecting the call without removing its item from the queue
timeoutCallbackKeep(s, id) ==
    LET c == s.calls[id]
    IN  [permits |-> s.permits + RolledBack(c),
         queue |-> s.queue,
         calls |-> [s.calls EXCEPT ![id] =
                        [Reject(c, "timeout", NoReason) EXCEPT !.timer = "fired"]]]

\* The callback tryAcquire gave to setTimeout, run for call `id`
timeoutCallback(s, id) ==
    LET c == s.calls[id]
        index == FindIndex(s.queue, id, 1)
    IN  [permits |-> s.permits + RolledBack(c),
         queue |-> IF index >= 1 THEN Splice(s.queue, index) ELSE s.queue,
         calls |-> [s.calls EXCEPT ![id] =
                        [Reject(c, "timeout", NoReason) EXCEPT !.timer = "fired"]]]

\* releaseOne serving the item at the tail of the queue instead of the head
releaseOneLast(s) ==
    IF Len(s.queue) # 0
    THEN LET id == s.queue[Len(s.queue)]
             c == CallResolvers([s.calls[id] EXCEPT !.resolvers = @ - 1], 1)
         IN  [s EXCEPT !.calls[id] = c,
                       !.queue = IF c.resolvers = 0
                                 THEN SubSeq(@, 1, Len(@) - 1) ELSE @]
    ELSE [s EXCEPT !.permits = @ + 1]

\* releaseOne leaving an item in the queue after its last resolver was called
releaseOneStay(s) ==
    IF Len(s.queue) # 0
    THEN LET id == Head(s.queue)
             c == CallResolvers([s.calls[id] EXCEPT !.resolvers = @ - 1], 1)
         IN  [s EXCEPT !.calls[id] = c]
    ELSE [s EXCEPT !.permits = @ + 1]


\* One round of release: the first resolver of the head item is removed and
\* called, and the item leaves the queue with its last resolver; with an
\* empty queue the counter gets the permit.
releaseOne(s) ==
    IF Len(s.queue) # 0
    THEN LET id == Head(s.queue)
             c == CallResolvers([s.calls[id] EXCEPT !.resolvers = @ - 1], 1)
         IN  [s EXCEPT !.calls[id] = c,
                       !.queue = IF c.resolvers = 0 THEN Tail(@) ELSE @]
    ELSE [s EXCEPT !.permits = @ + 1]

\* release making two rounds at most
releaseTwice(s, n) ==
    IF n = 0 THEN s
    ELSE IF n = 1 THEN releaseOne(s)
    ELSE releaseOne(releaseOne(s))

\* release making at least one round
releaseFloor(s, n) ==
    releaseOne(IF n <= 1 THEN s ELSE releaseOne(s))

\* release stopping after its first round
releaseOnce(s, n) ==
    IF n = 0 THEN s ELSE releaseOne(s)

\* Semaphore.release(permits), for permits >= 0
RECURSIVE release(_, _)
release(s, n) ==
    IF n = 0 THEN s ELSE release(releaseOne(s), n - 1)

\* releaseAll adding `permits` to the counter
releaseAllAdd(s, n) ==
    [permits |-> s.permits + n,
     queue |-> <<>>,
     calls |-> [i \in 1 .. Len(s.calls) |->
                    IF FindIndex(s.queue, i, 1) >= 1
                    THEN CallResolvers(s.calls[i], s.calls[i].resolvers)
                    ELSE s.calls[i]]]

\* Semaphore.releaseAll(permits), for permits >= 0: every resolver still in
\* a queued item is called, the items themselves are left as they are.
releaseAll(s, n) ==
    [permits |-> n,
     queue |-> <<>>,
     calls |-> [i \in 1 .. Len(s.calls) |->
                    IF FindIndex(s.queue, i, 1) >= 1
                    THEN CallResolvers(s.calls[i], s.calls[i].resolvers)
                    ELSE s.calls[i]]]

\* interrupt rejecting the head of the queue only
interruptHead(s, reason, n) ==
    [permits |-> n,
     queue |-> <<>>,
     calls |-> [i \in 1 .. Len(s.calls) |->
                    IF s.queue # <<>> /\ Head(s.queue) = i
                    THEN Reject(s.calls[i], "interrupted", reason)
                    ELSE s.calls[i]]]

\* interrupt rejecting the queued items without taking them out of the queue
interruptStay(s, reason, n) ==
    [permits |-> n,
     queue |-> s.queue,
     calls |-> [i \in 1 .. Len(s.calls) |->
                    IF FindIndex(s.queue, i, 1) >= 1
                    THEN Reject(s.calls[i], "interrupted", reason)
                    ELSE s.calls[i]]]

\* interrupt leaving the counter as it is
interruptKeepPermits(s, reason, n) ==
    [permits |-> s.permits,
     queue |-> <<>>,
     calls |-> [i \in 1 .. Len(s.calls) |->
                    IF FindIndex(s.queue, i, 1) >= 1
                    THEN Reject(s.calls[i], "interrupted", reason)
                    ELSE s.calls[i]]]

\* interrupt forgetting the reason it was given
interruptNoReason(s, reason, n) ==
    [permits |-> n,
     queue |-> <<>>,
     calls |-> [i \in 1 .. Len(s.calls) |->
                    IF FindIndex(s.queue, i, 1) >= 1
                    THEN Reject(s.calls[i], "interrupted", NoReason)
                    ELSE s.calls[i]]]

\* Semaphore.interrupt(reason, permits), for permits >= 0
interrupt(s, reason, n) ==
    [permits |-> n,
     queue |-> <<>>,
     calls |-> [i \in 1 .. Len(s.calls) |->
                    IF FindIndex(s.queue, i, 1) >= 1
                    THEN Reject(s.calls[i], "interrupted", reason)
                    ELSE s.calls[i]]]

\* the getters
permitsAvailable == permits
RECURSIVE SumResolvers(_, _)
SumResolvers(q, cs) ==
    IF q = <<>> THEN 0 ELSE cs[Head(q)].resolvers + SumResolvers(Tail(q), cs)
permitsRequired == SumResolvers(queue, calls)
queueLength == Len(queue)

----------------------------------------------------------------------------
\* The actions

\* last: the method (or timer callback) of the last step, the call it made
\* or ran for (0: none), its optional `permits` argument as given, the
\* reason given to interrupt, the validation error it reported, and the
\* `timeout` argument (<<>> for a method without one).
Op(name, id, arg, reason, err) ==
    [op |-> name, id |-> id, arg |-> arg, reason |-> reason, err |-> err,
     timeout |-> <<>>]

\* a step of tryAcquire/tryLock, called with `timeout`
OpT(name, id, timeout, arg, err) ==
    [Op(name, id, arg, NoReason, err) EXCEPT !.timeout = <<timeout>>]

InQueue(q, id) == \E k \in 1 .. Len(q) : q[k] = id

\* hist[id], kept for the call's caller:
\*   before   : permitsAvailable just before the call
\*   released : permits passed to release() while the call was queued
\*   alone    : no other call was queued at any moment of its wait
HistAfter(s, released) ==
    LET old == [i \in 1 .. Len(calls) |->
                   IF InQueue(queue, i)
                   THEN [hist[i] EXCEPT
                            !.released = @ + released,
                            !.alone = @ /\ Len(s.calls) = Len(calls)]
                   ELSE hist[i]]
    IN  IF Len(s.calls) > Len(calls)
        THEN Append(old, [before |-> permits, released |-> 0,
                          alone |-> queue = <<>>])
        ELSE old

\* the step to semaphore state s, of a method that released `released` permits
Set(s, released) ==
    /\ permits' = s.permits
    /\ queue' = s.queue
    /\ calls' = s.calls
    /\ hist' = HistAfter(s, released)

\* new Semaphore(permits)
Init ==
    /\ permits \in 0 .. MaxInitPermits
    /\ queue = <<>>
    /\ calls = <<>>
    /\ hist = <<>>
    /\ holders = {}
    /\ last = Op("new", 0, <<permits>>, NoReason, "none")
    /\ sections = <<>>
    /\ items = <<>>
    /\ reads = <<>>
    /\ written = 0
    /\ due = <<>>

Acquire ==
    /\ Len(calls) < MaxCalls
    /\ \E arg \in Opt(PermitArgs) :
        LET err == acquireError(Param(arg, 1))
        IN  /\ Set(acquire(Sem, arg), 0)
            /\ last' = Op("acquire", IF err = "none" THEN Len(calls) + 1 ELSE 0,
                          arg, NoReason, err)
    /\ UNCHANGED <<holders, wrappers>>

TryAcquire ==
    /\ Len(calls) < MaxCalls
    /\ \E timeout \in Timeouts, arg \in Opt(PermitArgs) :
        LET err == tryAcquireError(timeout, Param(arg, 1))
        IN  /\ Set(tryAcquire(Sem, timeout, arg), 0)
            /\ last' = OpT("tryAcquire", IF err = "none" THEN Len(calls) + 1 ELSE 0,
                           timeout, arg, err)
    /\ UNCHANGED <<holders, wrappers>>

\* the timer of a tryAcquire fires
Timeout ==
    /\ \E id \in 1 .. Len(calls) :
        /\ calls[id].timer = "armed"
        /\ Set(timeoutCallback(Sem, id), 0)
        /\ last' = Op("timeout", id, <<>>, NoReason, "none")
    /\ UNCHANGED <<holders, wrappers>>

Release ==
    /\ \E arg \in Opt(PermitArgs) :
        LET n == Param(arg, 1)
            err == releaseError(n)
            s == IF err = "none" THEN release(Sem, n) ELSE Sem
        IN  /\ s.permits <= MaxPermits
            /\ Set(s, IF err = "none" THEN n ELSE 0)
            /\ last' = Op("release", 0, arg, NoReason, err)
    /\ UNCHANGED <<holders, wrappers>>

ReleaseAll ==
    /\ \E arg \in Opt(PermitArgs) :
        LET n == Param(arg, 0)
            err == releaseError(n)
        IN  /\ Set(IF err = "none" THEN releaseAll(Sem, n) ELSE Sem, 0)
            /\ last' = Op("releaseAll", 0, arg, NoReason, err)
    /\ UNCHANGED <<holders, wrappers>>

Interrupt ==
    /\ \E reason \in Reasons, arg \in Opt(PermitArgs) :
        LET n == Param(arg, 0)
            err == releaseError(n)
        IN  /\ Set(IF err = "none" THEN interrupt(Sem, reason, n) ELSE Sem, 0)
            /\ last' = Op("interrupt", 0, arg, reason, err)
    /\ UNCHANGED <<holders, wrappers>>

Next ==
    \/ Acquire
    \/ TryAcquire
    \/ Timeout
    \/ Release
    \/ ReleaseAll
    \/ Interrupt

Spec == Init /\ [][Next]_vars

\* setTimeout: the timer of each call, once started, fires
FairSpec ==
    Spec /\ \A id \in 1 .. MaxCalls : WF_vars(Timeout /\ last'.id = id)

----------------------------------------------------------------------------
\* The Mutex: a Semaphore(1) behind lock/tryLock/unlock

\* Mutex.lock()
lock(s) == acquire(s, <<1>>)

\* Mutex.tryLock(timeout)
tryLock(s, timeout) == tryAcquire(s, timeout, <<1>>)

\* unlock() that releases nothing
unlockNothing(s) == s

\* Mutex.unlock(): release() with its default argument
unlock(s) == release(s, Param(<<>>, 1))

\* Mutex.isLocked: `this.queueLength !== 0`, queueLength being the
\* semaphore's
isLocked == queueLength # 0

\* the calls that step to s resolves: their callers now hold the lock
Obtained(s) ==
    {i \in 1 .. Len(s.calls) :
        /\ s.calls[i].state = "fulfilled"
        /\ (i > Len(calls) \/ calls[i].state = "pending")}

\* new Mutex()
MutexInit ==
    /\ permits = 1
    /\ queue = <<>>
    /\ calls = <<>>
    /\ hist = <<>>
    /\ holders = {}
    /\ last = Op("new", 0, <<>>, NoReason, "none")
    /\ sections = <<>>
    /\ items = <<>>
    /\ reads = <<>>
    /\ written = 0
    /\ due = <<>>

MutexLock ==
    /\ Len(calls) < MaxLocks
    /\ Set(lock(Sem), 0)
    /\ holders' = holders \cup Obtained(lock(Sem))
    /\ last' = Op("lock", Len(calls) + 1, <<>>, NoReason, "none")
    /\ UNCHANGED wrappers

MutexTryLock ==
    /\ Len(calls) < MaxLocks
    /\ \E timeout \in Timeouts :
        /\ Set(tryLock(Sem, timeout), 0)
        /\ holders' = holders \cup Obtained(tryLock(Sem, timeout))
        /\ last' = OpT("tryLock", Len(calls) + 1, timeout, <<>>, "none")
    /\ UNCHANGED wrappers

\* unlock() by a task that holds the lock
MutexUnlock ==
    \E h \in holders :
        /\ Set(unlock(Sem), 1)
        /\ holders' = (holders \ {h}) \cup Obtained(unlock(Sem))
        /\ last' = Op("unlock", h, <<>>, NoReason, "none")
        /\ UNCHANGED wrappers

\* the timer of a tryLock fires
MutexTimeout ==
    \E id \in 1 .. Len(calls) :
        /\ calls[id].timer = "armed"
        /\ Set(timeoutCallback(Sem, id), 0)
        /\ holders' = holders \cup Obtained(timeoutCallback(Sem, id))
        /\ last' = Op("timeout", id, <<>>, NoReason, "none")
        /\ UNCHANGED wrappers

MutexNext ==
    \/ MutexLock
    \/ MutexTryLock
    \/ MutexUnlock
    \/ MutexTimeout

\* a mutex whose unlock() is only called by the holder, without interrupt
SpecMutex == MutexInit /\ [][MutexNext]_vars

\* interrupt leaving the semaphore without a permit
interruptMutexNoPermit(s, reason) == interrupt(s, reason, 0)

\* Mutex.interrupt(reason)
interruptMutex(s, reason) == interrupt(s, reason, 1)

MutexInterrupt ==
    \E reason \in Reasons :
        /\ Set(interruptMutex(Sem, reason), 0)
        /\ last' = Op("interrupt", 0, <<>>, reason, "none")
        /\ UNCHANGED <<holders, wrappers>>

MutexInterruptNext ==
    \/ MutexLock
    \/ MutexTryLock
    \/ MutexUnlock
    \/ MutexTimeout
    \/ MutexInterrupt

\* the mutex with interrupt
SpecMutexInterrupt == MutexInit /\ [][MutexInterruptNext]_vars

----------------------------------------------------------------------------
\* Mutex.lockWith(cs) / Mutex.tryLockWith(timeout, cs): lock (tryLock), run
\* the critical section cs, unlock on every way out of cs, and settle with
\* what cs gave; when the lock is not obtained cs does not run and the call
\* is rejected with the error of the lock.

\* the ways a critical section ends: it returns a value, it throws, or it
\* returns a promise that resolves or rejects later
SyncPaths == {"returns", "throws"}
AsyncPaths == {"resolves", "rejects"}

\* a lockWith/tryLockWith call: the call it made on the semaphore (0: none,
\* tryLock refused the timeout), how often cs ran and unlock was called,
\* the way cs ended, and the settlement of the promise it returned
NewSection(kind, call) ==
    [kind |-> kind, call |-> call, phase |-> "locking", runs |-> 0,
     unlocks |-> 0, path |-> "none", state |-> "pending", error |-> "none",
     reason |-> NoReason]

\* the promise lock()/tryLock(timeout) returned to the section
LockPromise(sec) ==
    IF sec.call = 0
    THEN [state |-> "rejected", error |-> "invalidTimeout", reason |-> NoReason]
    ELSE [state |-> calls[sec.call].state, error |-> calls[sec.call].error,
          reason |-> calls[sec.call].reason]

\* the section settles with what cs gave
SettleWith(sec, path) ==
    IF path \in {"returns", "resolves"}
    THEN [sec EXCEPT !.phase = "done", !.path = path, !.state = "fulfilled"]
    ELSE [sec EXCEPT !.phase = "done", !.path = path, !.state = "rejected",
                     !.error = path]

\* the section settles with the error of its lock
FailWith(sec, lockPromise) ==
    [sec EXCEPT !.phase = "done", !.state = "rejected",
                !.error = lockPromise.error, !.reason = lockPromise.reason]

\* lockWith(cs)
LockWith ==
    /\ Len(calls) < MaxLocks
    /\ Len(sections) < MaxLocks
    /\ Set(lock(Sem), 0)
    /\ holders' = holders \cup Obtained(lock(Sem))
    /\ sections' = Append(sections, NewSection("lockWith", Len(calls) + 1))
    /\ last' = Op("lockWith", Len(calls) + 1, <<>>, NoReason, "none")
    /\ UNCHANGED buffer

\* tryLockWith(timeout, cs)
TryLockWith ==
    /\ Len(calls) < MaxLocks
    /\ Len(sections) < MaxLocks
    /\ \E timeout \in AnyTimeouts :
        LET err == tryAcquireError(timeout, 1)
            id == IF err = "none" THEN Len(calls) + 1 ELSE 0
        IN  /\ Set(tryLock(Sem, timeout), 0)
            /\ holders' = holders \cup Obtained(tryLock(Sem, timeout))
            /\ sections' = Append(sections, NewSection("tryLockWith", id))
            /\ last' = OpT("tryLockWith", id, timeout, <<>>, err)
    /\ UNCHANGED buffer

\* the lock is obtained and cs runs to its end in one go: unlock follows
SectionRun(k) ==
    /\ sections[k].phase = "locking"
    /\ LockPromise(sections[k]).state = "fulfilled"
    /\ \E path \in SyncPaths :
        sections' = [sections EXCEPT ![k] =
                        SettleWith([@ EXCEPT !.runs = @ + 1, !.unlocks = @ + 1],
                                   path)]
    /\ Set(unlock(Sem), 1)
    /\ holders' = (holders \ {sections[k].call}) \cup Obtained(unlock(Sem))
    /\ last' = Op("cs", sections[k].call, <<>>, NoReason, "none")
    /\ UNCHANGED buffer

\* the lock is obtained and cs returns a promise: the lock stays held
SectionStart(k) ==
    /\ sections[k].phase = "locking"
    /\ LockPromise(sections[k]).state = "fulfilled"
    /\ sections' = [sections EXCEPT ![k].phase = "running", ![k].runs = @ + 1]
    /\ last' = Op("cs", sections[k].call, <<>>, NoReason, "none")
    /\ UNCHANGED <<permits, queue, calls, hist, holders, buffer>>

\* the promise cs returned settles: unlock follows
SectionEnd(k) ==
    /\ sections[k].phase = "running"
    /\ \E path \in AsyncPaths :
        sections' = [sections EXCEPT ![k] =
                        SettleWith([@ EXCEPT !.unlocks = @ + 1], path)]
    /\ Set(unlock(Sem), 1)
    /\ holders' = (holders \ {sections[k].call}) \cup Obtained(unlock(Sem))
    /\ last' = Op("csEnd", sections[k].call, <<>>, NoReason, "none")
    /\ UNCHANGED buffer

\* the lock was refused: the section is over
SectionFail(k) ==
    /\ sections[k].phase = "locking"
    /\ LockPromise(sections[k]).state = "rejected"
    /\ sections' = [sections EXCEPT ![k] = FailWith(@, LockPromise(@))]
    /\ last' = Op("csFail", sections[k].call, <<>>, NoReason, "none")
    /\ UNCHANGED <<permits, queue, calls, hist, holders, buffer>>

\* a settled lock whose section has not gone on yet: it does so before any
\* timer runs
Continuing ==
    \E k \in 1 .. Len(sections) :
        /\ sections[k].phase = "locking"
        /\ LockPromise(sections[k]).state # "pending"

WithTimeout == ~Continuing /\ MutexTimeout

WithNext ==
    \/ LockWith
    \/ TryLockWith
    \/ \E k \in 1 .. Len(sections) : SectionRun(k)
    \/ \E k \in 1 .. Len(sections) : SectionStart(k)
    \/ \E k \in 1 .. Len(sections) : SectionEnd(k)
    \/ \E k \in 1 .. Len(sections) : SectionFail(k)
    \/ WithTimeout
    \/ MutexInterrupt

SpecMutexWith == MutexInit /\ [][WithNext]_vars

----------------------------------------------------------------------------
\* ProducerConsumer: a buffer of items and a semaphore with one permit per
\* written item.  write appends its items and releases as many permits;
\* read(n) acquires n permits and, once that promise is resolved, removes and
\* returns the first n items of the buffer; tryRead does the same with
\* tryAcquire; interrupt replaces the buffer and interrupts the semaphore
\* with as many permits as there are items.  Items are numbered in the order
\* they are given to the object.

\* the `nItem` arguments the callers give, with one the methods refuse
ReadArgs == {-1, 0, 1, 2}

\* ProducerConsumer.itemsAvailable
itemsAvailable == Len(items)

\* the check of `nItem` by read and tryRead
readError(nItem) == IF nItem < 0 THEN "invalidRead" ELSE "none"

\* the next k items given to the object
Fresh(k) == [i \in 1 .. k |-> written + i]

\* a read call whose acquire is not settled yet
NewRead(nItem) == [nItem |-> nItem, phase |-> "acquiring", got |-> <<>>]

\* the reads that the step to s resolves, in the order release resolves them
Resolved(s) ==
    SelectSeq(queue \o (IF Len(s.calls) > Len(calls) THEN <<Len(s.calls)>> ELSE <<>>),
              LAMBDA id : /\ s.calls[id].state = "fulfilled"
                          /\ (id <= Len(calls) => calls[id].state # "fulfilled"))

\* `items.splice(0, nItem)`: what it returns, and what it leaves
Spliced(nItem) == SubSeq(items, 1, IF nItem <= Len(items) THEN nItem ELSE Len(items))
Remaining(nItem) == SubSeq(items, Len(Spliced(nItem)) + 1, Len(items))

\* new ProducerConsumer(initialItems)
ProducerConsumerInit ==
    /\ \E n \in 0 .. MaxInitPermits :
        /\ items = [i \in 1 .. n |-> i]
        /\ written = n
        /\ permits = n
        /\ last = Op("new", 0, <<n>>, NoReason, "none")
    /\ queue = <<>>
    /\ calls = <<>>
    /\ hist = <<>>
    /\ holders = {}
    /\ sections = <<>>
    /\ reads = <<>>
    /\ due = <<>>

\* ProducerConsumer.read(nItem); readOne() is read(1)
Read ==
    /\ Len(calls) < MaxReads
    /\ \E nItem \in ReadArgs :
        LET err == readError(nItem)
            s == IF err = "none" THEN acquire(Sem, <<nItem>>) ELSE Sem
        IN  /\ Set(s, 0)
            /\ reads' = IF err = "none" THEN Append(reads, NewRead(nItem)) ELSE reads
            /\ due' = due \o Resolved(s)
            /\ last' = Op("read", IF err = "none" THEN Len(calls) + 1 ELSE 0,
                          <<nItem>>, NoReason, err)
    /\ UNCHANGED <<holders, sections, items, written>>

\* ProducerConsumer.tryRead(timeout, nItem); tryReadOne(timeout) is
\* tryRead(timeout, 1)
TryRead ==
    /\ Len(calls) < MaxReads
    /\ \E timeout \in AnyTimeouts, nItem \in ReadArgs :
        LET err == IF readError(nItem) # "none" THEN readError(nItem)
                   ELSE tryAcquireError(timeout, nItem)
            s == IF err = "none" THEN tryAcquire(Sem, timeout, <<nItem>>) ELSE Sem
        IN  /\ Set(s, 0)
            /\ reads' = IF err = "none" THEN Append(reads, NewRead(nItem)) ELSE reads
            /\ due' = due \o Resolved(s)
            /\ last' = OpT("tryRead", IF err = "none" THEN Len(calls) + 1 ELSE 0,
                           timeout, <<nItem>>, err)
    /\ UNCHANGED <<holders, sections, items, written>>

\* the continuation of a read whose acquire resolved: it takes its items
Take ==
    /\ due # <<>>
    /\ LET id == Head(due)
       IN  /\ reads' = [reads EXCEPT ![id].phase = "done",
                                     ![id].got = Spliced(reads[id].nItem)]
           /\ items' = Remaining(reads[id].nItem)
           /\ due' = Tail(due)
           /\ last' = Op("take", id, <<reads[id].nItem>>, NoReason, "none")
    /\ UNCHANGED <<permits, queue, calls, hist, holders, sections, written>>

\* ProducerConsumer.write(...items)
Write ==
    /\ \E k \in 1 .. MaxArg :
        /\ written + k <= MaxItems
        /\ items' = items \o Fresh(k)
        /\ written' = written + k
        /\ Set(release(Sem, k), k)
        /\ due' = due \o Resolved(release(Sem, k))
        /\ last' = Op("write", 0, <<k>>, NoReason, "none")
    /\ UNCHANGED <<holders, sections, reads>>

\* ProducerConsumer.interrupt(reason, items = [])
ProducerConsumerInterrupt ==
    /\ \E reason \in Reasons, k \in 0 .. 1 :
        /\ written + k <= MaxItems
        /\ items' = Fresh(k)
        /\ written' = written + k
        /\ Set(interrupt(Sem, reason, k), 0)
        /\ last' = Op("interrupt", 0, <<k>>, reason, "none")
    /\ UNCHANGED <<holders, sections, reads, due>>

\* the timer of a tryRead fires: a timer callback runs after the
\* continuations of the promises already resolved
ReadTimeout == due = <<>> /\ Timeout

ProducerConsumerNext ==
    \/ Read
    \/ TryRead
    \/ Take
    \/ Write
    \/ ProducerConsumerInterrupt
    \/ ReadTimeout

SpecProducerConsumer == ProducerConsumerInit /\ [][ProducerConsumerNext]_vars

----------------------------------------------------------------------------
\* One pending tryAcquire (call 1), possibly another acquire queued behind
\* it, then one release and the timer of call 1, in either order.

RaceReleased == last.op = "release" \/ (Len(hist) >= 1 /\ hist[1].released > 0)

RaceTryAcquire ==
    /\ calls = <<>>
    /\ \E timeout \in Timeouts, arg \in Opt(PermitArgs) :
        /\ Param(arg, 1) > permits
        /\ Set(tryAcquire(Sem, timeout, arg), 0)
        /\ last' = OpT("tryAcquire", 1, timeout, arg, "none")
    /\ UNCHANGED <<holders, wrappers>>

RaceOther ==
    /\ Len(calls) = 1
    /\ calls[1].timer = "armed"
    /\ ~RaceReleased
    /\ \E arg \in Opt(PermitArgs) :
        /\ Set(acquire(Sem, arg), 0)
        /\ last' = Op("acquire", 2, arg, NoReason, "none")
    /\ UNCHANGED <<holders, wrappers>>

RaceRelease ==
    /\ Len(calls) >= 1
    /\ ~RaceReleased
    /\ \E arg \in Opt(PermitArgs \ {0}) :
        /\ Set(release(Sem, Param(arg, 1)), Param(arg, 1))
        /\ last' = Op("release", 0, arg, NoReason, "none")
    /\ UNCHANGED <<holders, wrappers>>

RaceTimeout ==
    /\ Len(calls) >= 1
    /\ calls[1].timer = "armed"
    /\ Set(timeoutCallback(Sem, 1), 0)
    /\ last' = Op("timeout", 1, <<>>, NoReason, "none")
    /\ UNCHANGED <<holders, wrappers>>

RaceNext ==
    \/ RaceTryAcquire
    \/ RaceOther
    \/ RaceRelease
    \/ RaceTimeout

SpecRace == Init /\ [][RaceNext]_vars

----------------------------------------------------------------------------
\* The methods called with any argument, negative ones included

ArgsAcquire ==
    /\ \E arg \in Opt(AnyPermits) :
        LET err == acquireError(Param(arg, 1))
        IN  /\ Len(acquire(Sem, arg).calls) <= MaxCalls
            /\ Set(acquire(Sem, arg), 0)
            /\ last' = Op("acquire", IF err = "none" THEN Len(calls) + 1 ELSE 0,
                          arg, NoReason, err)
    /\ UNCHANGED <<holders, wrappers>>

ArgsTryAcquire ==
    /\ \E timeout \in AnyTimeouts, arg \in Opt(AnyPermits) :
        LET err == tryAcquireError(timeout, Param(arg, 1))
        IN  /\ Len(tryAcquire(Sem, timeout, arg).calls) <= MaxCalls
            /\ Set(tryAcquire(Sem, timeout, arg), 0)
            /\ last' = OpT("tryAcquire", IF err = "none" THEN Len(calls) + 1 ELSE 0,
                           timeout, arg, err)
    /\ UNCHANGED <<holders, wrappers>>

ArgsRelease ==
    /\ \E arg \in Opt(AnyPermits) :
        LET n == Param(arg, 1)
            err == releaseError(n)
            s == IF err = "none" THEN release(Sem, n) ELSE Sem
        IN  /\ s.permits <= MaxPermits
            /\ Set(s, IF err = "none" THEN n ELSE 0)
            /\ last' = Op("release", 0, arg, NoReason, err)
    /\ UNCHANGED <<holders, wrappers>>

ArgsReleaseAll ==
    /\ \E arg \in Opt(AnyPermits) :
        LET n == Param(arg, 0)
            err == releaseError(n)
        IN  /\ Set(IF err = "none" THEN releaseAll(Sem, n) ELSE Sem, 0)
            /\ last' = Op("releaseAll", 0, arg, NoReason, err)
    /\ UNCHANGED <<holders, wrappers>>

ArgsInterrupt ==
    /\ \E reason \in Reasons, arg \in Opt(AnyPermits) :
        LET n == Param(arg, 0)
            err == releaseError(n)
        IN  /\ Set(IF err = "none" THEN interrupt(Sem, reason, n) ELSE Sem, 0)
            /\ last' = Op("interrupt", 0, arg, reason, err)
    /\ UNCHANGED <<holders, wrappers>>

ArgsNext ==
    \/ ArgsAcquire
    \/ ArgsTryAcquire
    \/ Timeout
    \/ ArgsRelease
    \/ ArgsReleaseAll
    \/ ArgsInterrupt

SpecArgs == Init /\ [][ArgsNext]_vars

----------------------------------------------------------------------------
\* new Semaphore(permits) with any argument, then the methods on the object

\* the constructor without its test of `permits`
constructorUnchecked(arg) ==
    [permits |-> Param(arg, 1), queue |-> <<>>, calls |-> <<>>, err |-> "none"]

\* constructor(private permits = 1): the parameter property is assigned,
\* then a negative value makes the constructor throw
constructor(arg) ==
    [permits |-> Param(arg, 1), queue |-> <<>>, calls |-> <<>>,
     err |-> IF Param(arg, 1) < 0 THEN "invalidPermits" ELSE "none"]

NewInit ==
    \E arg \in Opt(-1 .. MaxInitPermits) :
        /\ permits = constructor(arg).permits
        /\ queue = constructor(arg).queue
        /\ calls = constructor(arg).calls
        /\ hist = <<>>
        /\ holders = {}
        /\ last = Op("new", 0, arg, NoReason, constructor(arg).err)
        /\ sections = <<>>
        /\ items = <<>>
        /\ reads = <<>>
        /\ written = 0
        /\ due = <<>>

\* `new` returned an object: only then is there something to call
Constructed == ~(last.op = "new" /\ last.err # "none")

NewNext == Constructed /\ Next

SpecNew == NewInit /\ [][NewNext]_vars

----------------------------------------------------------------------------
\* Up to MaxWaiters calls that have to wait, the timers of the tryAcquire
\* ones, and release()

WaiterArgs == {<<>>, <<MaxArg>>}

WaitAcquire ==
    /\ Len(calls) < MaxWaiters
    /\ \E arg \in WaiterArgs :
        /\ Param(arg, 1) > permits
        /\ Set(acquire(Sem, arg), 0)
        /\ last' = Op("acquire", Len(calls) + 1, arg, NoReason, "none")
    /\ UNCHANGED <<holders, wrappers>>

WaitTryAcquire ==
    /\ Len(calls) < MaxWaiters
    /\ \E timeout \in Timeouts, arg \in WaiterArgs :
        /\ Param(arg, 1) > permits
        /\ Set(tryAcquire(Sem, timeout, arg), 0)
        /\ last' = OpT("tryAcquire", Len(calls) + 1, timeout, arg, "none")
    /\ UNCHANGED <<holders, wrappers>>

\* the timer of call id fires
WaitTimeout(id) ==
    /\ id <= Len(calls)
    /\ calls[id].timer = "armed"
    /\ Set(timeoutCallback(Sem, id), 0)
    /\ last' = Op("timeout", id, <<>>, NoReason, "none")
    /\ UNCHANGED <<holders, wrappers>>

WaitRelease ==
    /\ release(Sem, Param(<<>>, 1)).permits <= MaxPermits
    /\ Set(release(Sem, Param(<<>>, 1)), 1)
    /\ last' = Op("release", 0, <<>>, NoReason, "none")
    /\ UNCHANGED <<holders, wrappers>>

WaitNext ==
    \/ WaitAcquire
    \/ WaitTryAcquire
    \/ \E id \in 1 .. MaxWaiters : WaitTimeout(id)
    \/ WaitRelease

SpecWaiters == Init /\ [][WaitNext]_vars

----------------------------------------------------------------------------
\* The claims

Max(a, b) == IF a >= b THEN a ELSE b
Min(a, b) == IF a <= b THEN a ELSE b
Without(q, id) == SelectSeq(q, LAMBDA x : x # id)

\* the step is the timer callback of call id
TimeoutOf(id) == last'.op = "timeout" /\ last'.id = id

\* the outstanding units of the first k entries of the queue
Outstanding(k) == SumResolvers(SubSeq(queue, 1, k), calls)

C2_NoRollbackAfterSuccess ==
    [][\A id \in 1 .. Len(calls) :
        (TimeoutOf(id) /\ calls[id].state = "fulfilled" /\ calls[id].resolvers = 0) =>
            /\ permits' = permits
            /\ permitsRequired' = permitsRequired
            /\ queue' = queue]_vars

\* C3: the permits a timed-out tryAcquire gives back go to the entries
\* still queued before any reaches the counter: permitsRequired drops by
\* what is handed over, and permitsAvailable > 0 only with an empty queue.
C3_TimeoutHandsOver ==
    [][\A id \in 1 .. Len(calls) :
        (TimeoutOf(id) /\ InQueue(queue, id)) =>
            LET back == (calls[id].n - calls[id].units)
                            + (calls[id].units - calls[id].resolvers)
                others == permitsRequired - calls[id].resolvers
            IN  /\ permitsRequired' = Max(0, others - back)
                /\ (permits' > 0 => queue' = <<>>)]_vars

\* C5: a release serves the queue head first: it lowers the outstanding
\* units of an entry only once every entry queued before it is served, and
\* it resolves an entry only together with or after those before it.
C5_ReleaseFIFO ==
    [][last'.op = "release" =>
        \A k \in 1 .. Len(queue) : \A j \in 1 .. (k - 1) :
            /\ (calls'[queue[k]].resolvers < calls[queue[k]].resolvers
                    => calls'[queue[j]].resolvers = 0)
            /\ (calls'[queue[k]].state = "fulfilled"
                    => calls'[queue[j]].state = "fulfilled")]_vars

\* C5 witness: a release gave a unit to the head of a queue of two entries
\* and the second entry still has all its units outstanding.
C5_Witness ==
    /\ last.op = "release"
    /\ Len(queue) = 2
    /\ calls[queue[1]].unitsResolved > 0
    /\ calls[queue[2]].unitsResolved = 0

\* C7: acquire(n), n > 0, with p permits available: permitsAvailable
\* becomes p - min(n, p); with n <= p the call resolves and nothing is
\* queued, otherwise one entry of n - p outstanding units is appended at the
\* tail (permitsRequired + n - p, queueLength + 1).
C7_Acquire ==
    [][(last'.op = "acquire" /\ last'.err = "none" /\ Param(last'.arg, 1) > 0) =>
        LET n == Param(last'.arg, 1)
            p == permits
            id == last'.id
        IN  /\ permits' = p - Min(n, p)
            /\ IF n <= p
               THEN /\ calls'[id].state = "fulfilled"
                    /\ queue' = queue
               ELSE /\ calls'[id].state = "pending"
                    /\ queue' = Append(queue, id)
                    /\ calls'[id].resolvers = n - p
                    /\ permitsRequired' = permitsRequired + (n - p)
                    /\ queueLength' = queueLength + 1]_vars

\* C7 witness: an acquire took what the counter had and queued the rest.
C7_Witness ==
    /\ last.op = "acquire"
    /\ queue # <<>>
    /\ queue[Len(queue)] = last.id
    /\ hist[last.id].before > 0
    /\ calls[last.id].resolvers = calls[last.id].n - hist[last.id].before

\* C8: release(n), n > 0, with R outstanding units queued: permitsRequired
\* becomes max(0, R - n), permitsAvailable grows by max(0, n - R), the
\* entries removed are the longest prefix of the queue whose outstanding
\* units sum to at most n, the next entry loses the rest and the others
\* nothing; fewer units than the head needs change neither queueLength nor
\* permitsAvailable.
C8_Release ==
    [][(last'.op = "release" /\ last'.err = "none" /\ Param(last'.arg, 1) > 0) =>
        LET n == Param(last'.arg, 1)
            R == permitsRequired
            m == CHOOSE k \in 0 .. Len(queue) :
                    /\ Outstanding(k) <= n
                    /\ \A k2 \in 0 .. Len(queue) : Outstanding(k2) <= n => k2 <= k
        IN  /\ permitsRequired' = Max(0, R - n)
            /\ permits' = permits + Max(0, n - R)
            /\ queue' = SubSeq(queue, m + 1, Len(queue))
            /\ \A k \in 1 .. m : calls'[queue[k]].state = "fulfilled"
            /\ \A k \in m + 1 .. Len(queue) :
                calls'[queue[k]].resolvers =
                    calls[queue[k]].resolvers
                        - (IF k = m + 1 THEN n - Outstanding(m) ELSE 0)
            /\ (queue # <<>> /\ n < calls[Head(queue)].resolvers
                    => queueLength' = queueLength /\ permits' = permits)]_vars

\* C8 witness: a release(2) resolved the head entry and gave its second
\* unit to the next entry, which still waits.
C8_Witness ==
    /\ last.op = "release"
    /\ Param(last.arg, 1) = 2
    /\ Len(calls) = 2
    /\ calls[1].state = "fulfilled"
    /\ calls[1].units = 1
    /\ queue = <<2>>
    /\ calls[2].unitsResolved = 1

\* C9: a tryAcquire that was the only queued entry for its whole wait and
\* got fewer units than its deficit is rejected with the timeout error,
\* leaving queueLength = 0, permitsRequired = 0 and permitsAvailable =
\* (permitsAvailable before the call) + (permits released during the wait).
C9_SoleTimeoutRestores ==
    [][\A id \in 1 .. Len(calls) :
        (TimeoutOf(id) /\ queue = <<id>> /\ hist[id].alone
                /\ calls[id].resolvers > 0) =>
            /\ calls'[id].state = "rejected"
            /\ calls'[id].error = "timeout"
            /\ queueLength' = 0
            /\ permitsRequired' = 0
            /\ permits' = hist[id].before + hist[id].released]_vars

\* C10: interrupt(reason, p), p >= 0 (0 when omitted): every queued call is
\* rejected with the interrupted error carrying `reason`, the queue becomes
\* empty, permitsRequired = 0 and permitsAvailable = p; an interrupted call
\* never resolves afterwards.
C10_Interrupt ==
    [][/\ (last'.op = "interrupt" /\ last'.err = "none") =>
            /\ \A k \in 1 .. Len(queue) :
                /\ calls'[queue[k]].state = "rejected"
                /\ calls'[queue[k]].error = "interrupted"
                /\ calls'[queue[k]].reason = last'.reason
            /\ queue' = <<>>
            /\ permitsRequired' = 0
            /\ permits' = (IF last'.arg = <<>> THEN 0 ELSE last'.arg[1])
       /\ \A id \in 1 .. Len(calls) :
            calls[id].error = "interrupted" =>
                /\ calls'[id].state = "rejected"
                /\ calls'[id].error = "interrupted"
                /\ calls'[id].reason = calls[id].reason]_vars

\* C10 witness: an interrupt(reason, 2) rejected a queued acquire and a
\* queued tryAcquire, one of which had already received a unit, and left
\* permitsAvailable = 2.
C10_Witness ==
    /\ last.op = "interrupt"
    /\ Len(calls) = 2
    /\ \A id \in 1 .. 2 : calls[id].error = "interrupted"
                            /\ calls[id].reason = last.reason
    /\ \E id \in 1 .. 2 : calls[id].kind = "tryAcquire"
    /\ \E id \in 1 .. 2 : calls[id].kind = "acquire"
    /\ \E id \in 1 .. 2 : calls[id].unitsResolved > 0
    /\ last.arg = <<2>>
    /\ permits = 2

\* C4: a pending tryAcquire(timeout, n) (call 1) and a release(r) due
\* together: whichever runs first, once both have run,
\* permitsAvailable + (n if the call succeeded) + the units delivered to the
\* other queued entry = permitsAvailable before the call + r.
C4_RaceConserves ==
    (Len(calls) >= 1 /\ calls[1].timer = "fired" /\ RaceReleased) =>
        LET r == IF last.op = "release" THEN Param(last.arg, 1)
                 ELSE hist[1].released
            got == IF calls[1].state = "fulfilled" THEN calls[1].n ELSE 0
            others == IF Len(calls) = 2 THEN calls[2].unitsResolved ELSE 0
        IN  permits + got + others = hist[1].before + r

\* C6: at most one task holds the mutex at any time.
C6_MutualExclusion == Cardinality(holders) <= 1

\* C11: releaseAll(p), p >= 0 (0 when omitted): every call queued at that
\* moment resolves successfully whatever number of units it still needed,
\* the queue becomes empty, permitsRequired = 0 and permitsAvailable is set
\* to p, not incremented.
C11_ReleaseAll ==
    [][(last'.op = "releaseAll" /\ last'.err = "none") =>
        /\ \A k \in 1 .. Len(queue) :
            /\ calls[queue[k]].state = "pending"
            /\ calls'[queue[k]].state = "fulfilled"
            /\ calls'[queue[k]].error = "none"
        /\ queue' = <<>>
        /\ queueLength' = 0
        /\ permitsRequired' = 0
        /\ permits' = (IF last'.arg = <<>> THEN 0 ELSE last'.arg[1])]_vars

\* C11 witness: with one permit available (left by the timer of an earlier
\* tryAcquire) a releaseAll(1) resolved a queued call that still needed two
\* units, and permitsAvailable is 1.
C11_Witness ==
    /\ last.op = "releaseAll"
    /\ last.arg = <<1>>
    /\ permits = 1
    /\ queue = <<>>
    /\ \E id \in 1 .. Len(calls) :
        /\ calls[id].state = "fulfilled"
        /\ calls[id].units = 2
        /\ calls[id].unitsResolved = 2
        /\ calls[id].resolvers = 2
    /\ \E id \in 1 .. Len(calls) : calls[id].timer = "fired"

\* a tryAcquire that found its permits in the counter
Immediate(c) == c.kind = "tryAcquire" /\ c.units = 0

\* C12: tryAcquire(timeout, n) with n <= permitsAvailable takes exactly n
\* permits, resolves at once, queues no entry and starts no timer; no later
\* step is the timer of that call and the call stays resolved, never ending
\* with the timeout error.
C12_TryAcquireImmediate ==
    [][/\ (last'.op = "tryAcquire" /\ last'.err = "none"
                /\ Param(last'.arg, 1) <= permits) =>
            /\ permits' = permits - Param(last'.arg, 1)
            /\ calls'[last'.id].state = "fulfilled"
            /\ Immediate(calls'[last'.id])
            /\ calls'[last'.id].timer = "none"
            /\ queue' = queue
            /\ permitsRequired' = permitsRequired
            /\ \A id \in 1 .. Len(calls) : calls'[id] = calls[id]
       /\ \A id \in 1 .. Len(calls) :
            (Immediate(calls[id]) /\ calls[id].state = "fulfilled") =>
                /\ ~TimeoutOf(id)
                /\ calls'[id] = calls[id]]_vars

\* C12 witness: a tryAcquire(t, 1) took the only permit at once; later the
\* timer of another tryAcquire fired and the first call is still resolved,
\* without a timer.
C12_Witness ==
    /\ Len(calls) = 2
    /\ Immediate(calls[1])
    /\ calls[1].n = 1
    /\ hist[1].before = 1
    /\ calls[1].state = "fulfilled"
    /\ calls[1].timer = "none"
    /\ last.op = "timeout"
    /\ last.id = 2

\* the step is a method called with a negative `timeout` or `permits`
Invalid ==
    \/ (last'.timeout # <<>> /\ last'.timeout[1] < 0)
    \/ (last'.arg # <<>> /\ last'.arg[1] < 0)

C14_Construction ==
    last.op = "new" =>
        IF Param(last.arg, 1) >= 0
        THEN /\ last.err = "none"
             /\ permitsAvailable = Param(last.arg, 1)
             /\ queueLength = 0
             /\ permitsRequired = 0
        ELSE /\ last.err = "invalidPermits"
             /\ ~ENABLED NewNext

\* C14 witness: new Semaphore(-1) failed with the invalid-permits error.
C14_Witness ==
    /\ last.op = "new"
    /\ last.arg = <<-1>>
    /\ last.err = "invalidPermits"

\* C15: acquire(0) and tryAcquire(t, 0) resolve at once and release(0)
\* returns, each leaving permitsAvailable, permitsRequired, the queue and
\* every other call as they were, whatever the queue and the counter.
C15_ZeroPermits ==
    [][(last'.arg = <<0>> /\ last'.err = "none"
            /\ last'.op \in {"acquire", "tryAcquire", "release"}) =>
        /\ permits' = permits
        /\ permitsRequired' = permitsRequired
        /\ queue' = queue
        /\ \A id \in 1 .. Len(calls) : calls'[id] = calls[id]
        /\ IF last'.op = "release"
           THEN calls' = calls
           ELSE /\ Len(calls') = Len(calls) + 1
                /\ calls'[last'.id].state = "fulfilled"
                /\ calls'[last'.id].timer = "none"]_vars

\* C15 witness: release(0) returned with the counter at 0 and a call
\* waiting in the queue for all its units.
C15_Witness ==
    /\ last.op = "release"
    /\ last.arg = <<0>>
    /\ permits = 0
    /\ queue # <<>>
    /\ calls[Head(queue)].unitsResolved = 0

\* C16: a queued call resolves only in a release or releaseAll step that
\* delivers the last of its outstanding units, never earlier; with a single
\* queued waiter, release(n) with n < permitsRequired leaves it pending and
\* queued, and release(permitsRequired) resolves it, brings queueLength to
\* 0 and leaves permitsAvailable unchanged.
C16_ResolvesWhenServed ==
    [][/\ \A id \in 1 .. Len(calls) :
            (calls[id].state = "pending" /\ calls'[id].state = "fulfilled") =>
                /\ InQueue(queue, id)
                /\ ~InQueue(queue', id)
                /\ last'.op \in {"release", "releaseAll"}
                /\ calls'[id].unitsResolved = calls[id].units
                /\ calls'[id].unitsResolved
                        = calls[id].unitsResolved + calls[id].resolvers
                /\ (last'.op = "release"
                        => Param(last'.arg, 1) >= calls[id].resolvers)
       /\ \A id \in 1 .. Len(calls) :
            (queue = <<id>> /\ last'.op = "release" /\ last'.err = "none") =>
                LET n == Param(last'.arg, 1)
                IN  /\ (n < permitsRequired =>
                            /\ calls'[id].state = "pending"
                            /\ queue' = queue
                            /\ permitsRequired' = permitsRequired - n)
                    /\ (n = permitsRequired =>
                            /\ calls'[id].state = "fulfilled"
                            /\ queueLength' = 0
                            /\ permits' = permits)]_vars

\* C16 witness: the only queued call, which needed two units, stayed
\* pending after a first release() and was resolved by the second, with
\* permitsAvailable as it was when the call was queued.
C16_Witness ==
    /\ last.op = "release"
    /\ Param(last.arg, 1) = 1
    /\ queue = <<>>
    /\ \E id \in 1 .. Len(calls) :
        /\ calls[id].state = "fulfilled"
        /\ calls[id].units = 2
        /\ hist[id].alone
        /\ hist[id].released = 2
        /\ permits = 0

\* C17: permitsAvailable is a non-negative integer in every reachable
\* state.
C17_PermitsNonNegative == permitsAvailable \in Nat

\* C17 witness: an acquire(2) found one permit, took it and queued for the
\* other: permitsAvailable is 0.
C17_Witness ==
    /\ last.op = "acquire"
    /\ last.arg = <<2>>
    /\ last.id >= 1
    /\ hist[last.id].before = 1
    /\ calls[last.id].resolvers = 1
    /\ permitsAvailable = 0

\* C18: the timer of one tryAcquire removes only its own entry: the other
\* entries stay queued in the same order, with the same outstanding units,
\* and their calls are neither rejected nor resolved by that step.
C18_TimeoutOnlyOwnEntry ==
    [][\A id \in 1 .. Len(calls) :
        TimeoutOf(id) =>
            /\ queue' = Without(queue, id)
            /\ \A k \in 1 .. Len(queue) :
                    queue[k] # id => InQueue(queue', queue[k])
            /\ \A other \in 1 .. Len(calls) :
                    other # id =>
                        /\ calls'[other].state = calls[other].state
                        /\ calls'[other].error = calls[other].error
                        /\ calls'[other].resolvers = calls[other].resolvers
                        /\ calls'[other] = calls[other]]_vars

\* C18 witness: of three queued calls the middle one timed out; the first
\* and the third are still pending, queued in that order.
C18_Witness ==
    /\ last.op = "timeout"
    /\ last.id = 2
    /\ calls[2].error = "timeout"
    /\ queue = <<1, 3>>
    /\ calls[1].state = "pending"
    /\ calls[3].state = "pending"
    /\ calls[3].resolvers = 2

\* call id is a tryAcquire that has not settled
PendingTryAcquire(id) ==
    IF id <= Len(calls)
    THEN calls[id].kind = "tryAcquire" /\ calls[id].state = "pending"
    ELSE FALSE

\* C19: every tryAcquire call eventually settles (success, timeout or
\* interrupted), given that a timer that was started fires.
C19_TryAcquireSettles ==
    \A id \in 1 .. MaxCalls : PendingTryAcquire(id) ~> ~PendingTryAcquire(id)

\* C19 witness: two tryAcquire calls that had to wait have settled, the
\* first by the timeout error, the second by success.
C19_Witness ==
    /\ Len(calls) = 2
    /\ \A id \in 1 .. 2 : calls[id].kind = "tryAcquire" /\ calls[id].units > 0
    /\ calls[1].error = "timeout"
    /\ calls[2].state = "fulfilled"

\* C20: Mutex.isLocked is true exactly when the single permit of the mutex
\* is taken (permitsAvailable = 0): false on a new Mutex, true once a
\* lock()/tryLock() obtained the lock, also with nobody waiting, and false
\* again after the holder's unlock() with no waiter.
C20_IsLocked == isLocked <=> (permitsAvailable = 0)

\* C21: Mutex.interrupt(reason) rejects every waiting lock()/tryLock() call
\* with the interrupted error carrying `reason`; afterwards queueLength = 0,
\* isLocked is false and the permit count is 1.
C21_MutexInterrupt ==
    [][last'.op = "interrupt" =>
        /\ \A k \in 1 .. Len(queue) :
            /\ calls[queue[k]].state = "pending"
            /\ calls'[queue[k]].state = "rejected"
            /\ calls'[queue[k]].error = "interrupted"
            /\ calls'[queue[k]].reason = last'.reason
        /\ queueLength' = 0
        /\ ~isLocked'
        /\ permitsAvailable' = 1]_vars

\* C21 witness: interrupt(reason) rejected a waiting lock() and a waiting
\* tryLock() while a third call held the lock.
C21_Witness ==
    /\ last.op = "interrupt"
    /\ Len(calls) = 3
    /\ holders = {1}
    /\ \A id \in 2 .. 3 : calls[id].error = "interrupted"
                            /\ calls[id].reason = last.reason
    /\ \E id \in 2 .. 3 : calls[id].kind = "tryAcquire"
    /\ \E id \in 2 .. 3 : calls[id].kind = "acquire"
    /\ queueLength = 0
    /\ permitsAvailable = 1

\* C22: a tryLock(timeout) that did not obtain the lock before its timer
\* fired is rejected with the timeout error and the mutex is as before the
\* call: its entry is gone, the permit count and the holder are unchanged,
\* and when no other call was made meanwhile the permit count, queueLength
\* and isLocked are back to their values of before the call; the holder's
\* later unlock(), with nobody waiting, leaves the mutex unlocked.
C22_TryLockTimeout ==
    [][/\ \A id \in 1 .. Len(calls) :
            (TimeoutOf(id) /\ InQueue(queue, id)) =>
                /\ calls'[id].state = "rejected"
                /\ calls'[id].error = "timeout"
                /\ queue' = Without(queue, id)
                /\ queueLength' = queueLength - 1
                /\ permitsAvailable' = permitsAvailable
                /\ holders' = holders
                /\ (hist[id].alone =>
                        /\ queueLength' = 0
                        /\ ~isLocked'
                        /\ permitsAvailable' = hist[id].before)
       /\ (last'.op = "unlock" /\ queue = <<>>) =>
            /\ ~isLocked'
            /\ permitsAvailable' >= 1
            /\ holders' = holders \ {last'.id}]_vars

\* C23: once lockWith(cs)/tryLockWith(timeout, cs) obtained the lock, cs
\* runs exactly once while the lock is held, unlock is performed exactly
\* once on every way out of cs (it returns, it throws, its promise resolves
\* or rejects), and the call then settles with the result or error of cs.
C23_LockWithUnlocksOnce ==
    [][\A k \in 1 .. Len(sections') :
        LET sec == sections'[k]
            before == IF k <= Len(sections) THEN sections[k]
                      ELSE NewSection(sec.kind, sec.call)
        IN  /\ sec.runs <= 1
            /\ sec.unlocks <= sec.runs
            /\ (sec.runs > before.runs =>
                    /\ before.phase = "locking"
                    /\ calls[sec.call].state = "fulfilled"
                    /\ sec.call \in holders)
            /\ (sec.phase = "running" =>
                    /\ sec.runs = 1 /\ sec.unlocks = 0
                    /\ sec.state = "pending"
                    /\ sec.call \in holders')
            /\ (sec.unlocks > before.unlocks =>
                    /\ permits' = release(Sem, 1).permits
                    /\ queue' = release(Sem, 1).queue
                    /\ calls' = release(Sem, 1).calls
                    /\ sec.phase = "done")
            /\ ((sec.phase = "done" /\ sec.call # 0
                    /\ calls'[sec.call].state = "fulfilled") =>
                    /\ sec.runs = 1 /\ sec.unlocks = 1
                    /\ sec.path \in SyncPaths \cup AsyncPaths
                    /\ sec.state = (IF sec.path \in {"returns", "resolves"}
                                    THEN "fulfilled" ELSE "rejected")
                    /\ sec.error = (IF sec.path \in {"returns", "resolves"}
                                    THEN "none" ELSE sec.path))]_vars

\* C23 witness: three sections are over, each after one run of cs and one
\* unlock: one whose cs threw, one whose promise rejected, and one whose cs
\* returned; the mutex is free again.
C23_Witness ==
    /\ Len(sections) = 3
    /\ \A k \in 1 .. 3 : /\ sections[k].phase = "done"
                         /\ sections[k].runs = 1
                         /\ sections[k].unlocks = 1
    /\ \E k \in 1 .. 3 : sections[k].error = "throws"
    /\ \E k \in 1 .. 3 : sections[k].error = "rejects"
    /\ \E k \in 1 .. 3 : sections[k].path = "returns"
    /\ \E k \in 1 .. 3 : sections[k].kind = "tryLockWith"
    /\ holders = {}
    /\ queue = <<>>

\* C24: when lockWith/tryLockWith does not obtain the lock (the deadline of
\* tryLockWith passes, its timeout is invalid, or the waiting call is
\* interrupted), cs is never run and unlock is never called, the step that
\* propagates the failure changes neither the permit count nor the queue,
\* an invalid timeout changes nothing at all, and the call is rejected with
\* the error of the lock.
C24_LockNotObtained ==
    [][/\ \A k \in 1 .. Len(sections') :
            LET sec == sections'[k]
                lockPromise ==
                    IF sec.call = 0
                    THEN [state |-> "rejected", error |-> "invalidTimeout",
                          reason |-> NoReason]
                    ELSE calls'[sec.call]
            IN  /\ (lockPromise.state = "rejected" =>
                        /\ sec.runs = 0 /\ sec.unlocks = 0
                        /\ sec.call \notin holders'
                        /\ ~InQueue(queue', sec.call)
                        /\ lockPromise.error \in
                               {"timeout", "invalidTimeout", "interrupted"}
                        /\ (sec.phase = "done" =>
                                /\ sec.state = "rejected"
                                /\ sec.error = lockPromise.error
                                /\ sec.reason = lockPromise.reason))
                /\ ((k <= Len(sections) /\ sec.phase = "done" /\ sec.runs = 0
                        /\ sections[k].phase # "done") =>
                        /\ permits' = permits /\ queue' = queue
                        /\ calls' = calls /\ holders' = holders)
                /\ ((last'.op = "interrupt" /\ InQueue(queue, sec.call)) =>
                        /\ lockPromise.state = "rejected"
                        /\ lockPromise.error = "interrupted"
                        /\ lockPromise.reason = last'.reason)
                /\ ((TimeoutOf(sec.call) /\ InQueue(queue, sec.call)) =>
                        /\ lockPromise.state = "rejected"
                        /\ lockPromise.error = "timeout"
                        /\ permits' = permits + calls[sec.call].permitsBck
                        /\ queue' = Without(queue, sec.call))
       /\ (last'.op = "tryLockWith" /\ last'.err # "none") =>
            /\ last'.id = 0
            /\ permits' = permits /\ queue' = queue
            /\ calls' = calls /\ holders' = holders]_vars

\* C24 witness: while one call is inside its asynchronous cs, a tryLockWith
\* failed on its deadline and a lockWith was interrupted; neither ran cs nor
\* unlocked.
C24_Witness ==
    /\ Len(sections) = 3
    /\ \E h, t, i \in 1 .. 3 :
        /\ sections[h].phase = "running"
        /\ sections[t].kind = "tryLockWith"
        /\ sections[t].phase = "done"
        /\ sections[t].error = "timeout"
        /\ sections[t].runs = 0 /\ sections[t].unlocks = 0
        /\ sections[i].kind = "lockWith"
        /\ sections[i].phase = "done"
        /\ sections[i].error = "interrupted"
        /\ sections[i].reason # NoReason
        /\ sections[i].runs = 0 /\ sections[i].unlocks = 0

\* C25: in every state between two operations of a ProducerConsumer (no
\* continuation of a resolved read left to run), the permit count of its
\* semaphore equals itemsAvailable.
C25_PermitsMirrorItems == due = <<>> => permitsAvailable = itemsAvailable

\* the items a finished read returned
Got(id) == {reads[id].got[j] : j \in 1 .. Len(reads[id].got)}
Finished == {id \in 1 .. Len(reads) : reads[id].phase = "done"}

\* C26: a read(n)/tryRead(t, n) that succeeded returned exactly n items, in
\* write order and older than every item still buffered; no item went to
\* two readers; and of two readers that both had to wait, the one that
\* arrived first received the older items.
C26_ReadsOldestInOrder ==
    /\ \A id \in Finished :
        /\ Len(reads[id].got) = reads[id].nItem
        /\ \A j \in 1 .. Len(reads[id].got) - 1 :
            reads[id].got[j] < reads[id].got[j + 1]
        /\ \A x \in Got(id) : \A k \in 1 .. Len(items) : x < items[k]
    /\ \A a, b \in Finished :
        a # b => Got(a) \cap Got(b) = {}
    /\ \A a, b \in Finished :
        (a < b /\ calls[a].units > 0 /\ calls[b].units > 0) =>
            \A x \in Got(a), y \in Got(b) : x < y

\* C27: when the deadline of a waiting tryRead passes, the call is rejected
\* with the timeout error and never receives an item, the buffer is left
\* as it is (items written during the wait included), the call leaves the
\* queue so that queueLength counts one less, and a read that takes items
\* afterwards takes them from the front of that buffer.
C27_TryReadTimeout ==
    [][/\ \A id \in 1 .. Len(reads) :
            /\ (TimeoutOf(id) /\ InQueue(queue, id)) =>
                    /\ calls'[id].state = "rejected"
                    /\ calls'[id].error = "timeout"
                    /\ items' = items
                    /\ reads' = reads
                    /\ due' = due
                    /\ queue' = Without(queue, id)
                    /\ queueLength' = queueLength - 1
            /\ calls[id].state = "rejected" =>
                    /\ reads'[id].phase = "acquiring"
                    /\ reads'[id].got = <<>>
                    /\ ~InQueue(queue', id)
       /\ \A id \in 1 .. Len(reads) :
            (last'.op = "take" /\ last'.id = id) =>
                reads'[id].got \o items' = items]_vars

\* C27 witness: a tryRead(t, 2) received one written item of the two it
\* waited for and timed out; the item is still the only one in the buffer,
\* and a later read(1) took it.
C27_Witness ==
    /\ Len(reads) = 2
    /\ calls[1].kind = "tryAcquire"
    /\ calls[1].error = "timeout"
    /\ calls[1].unitsResolved = 1
    /\ hist[1].released = 1
    /\ reads[1].got = <<>>
    /\ reads[2].phase = "done"
    /\ reads[2].got = <<1>>
    /\ written = 1
    /\ items = <<>>

\* C28: ProducerConsumer.interrupt(reason, items) rejects every waiting read
\* with the interrupted error carrying `reason`, none of them ever takes an
\* item, the buffer holds exactly `items` afterwards (nothing when omitted),
\* queueLength is 0, and itemsAvailable, the number of items given and the
\* permit count are equal.
C28_InterruptReplacesBuffer ==
    [][last'.op = "interrupt" =>
        /\ \A id \in 1 .. Len(reads) :
            InQueue(queue, id) =>
                /\ calls'[id].state = "rejected"
                /\ calls'[id].error = "interrupted"
                /\ calls'[id].reason = last'.reason
                /\ reads'[id].got = <<>>
                /\ ~\E j \in 1 .. Len(due') : due'[j] = id
        /\ \A id \in 1 .. Len(reads) :
            ~InQueue(queue, id) => calls'[id] = calls[id]
        /\ items' = Fresh(last'.arg[1])
        /\ queueLength' = 0
        /\ itemsAvailable' = last'.arg[1]
        /\ permitsAvailable' = itemsAvailable']_vars

\* C28 witness: a read and a tryRead were waiting, one of them with an item
\* reserved, and interrupt(reason, [item]) has just rejected both and left
\* its one item in the buffer.
C28_Witness ==
    /\ last.op = "interrupt"
    /\ last.arg = <<1>>
    /\ Len(reads) = 2
    /\ \A id \in 1 .. 2 : /\ calls[id].state = "rejected"
                          /\ calls[id].error = "interrupted"
                          /\ calls[id].reason = last.reason
    /\ calls[1].kind # calls[2].kind
    /\ hist[1].before = 1
    /\ items = <<written>>
    /\ written >= 2
    /\ permitsAvailable = 1
    /\ queueLength = 0

\* the permits a call holds: all of them once it resolved, and while it is
\* queued those taken from the counter when it was queued plus those
\* delivered to it by release; none once it was rejected
RECURSIVE HeldUpTo(_)
HeldUpTo(k) ==
    IF k = 0 THEN 0
    ELSE HeldUpTo(k - 1)
         + (IF calls[k].state = "fulfilled" THEN calls[k].n
            ELSE IF InQueue(queue, k) THEN calls[k].n - calls[k].resolvers
            ELSE 0)
Accounted == permitsAvailable + HeldUpTo(Len(calls))

\* C29: with only acquire, tryAcquire, release and timers, permitsAvailable
\* plus the permits of the resolved calls plus the permits held by the
\* queued entries equals the initial permits plus all permits released: the
\* sum is the initial count at construction, release(n) adds n to it and no
\* other step changes it.
C29_PermitConservation ==
    [][Accounted' = Accounted + (IF last'.op = "release" THEN Param(last'.arg, 1)
                                 ELSE 0)]_vars

\* C30: whenever at least one entry is queued, permitsAvailable is 0.
C30_QueuedMeansNoPermit == queueLength > 0 => permitsAvailable = 0


\* a tryAcquire whose entry left the queue through interrupt (it was rejected
\* with the interrupted error) or through releaseAll (it resolved with
\* resolvers still in its item)
LeftByReset(id) ==
    /\ calls[id].kind = "tryAcquire"
    /\ \/ calls[id].error = "interrupted"
       \/ calls[id].state = "fulfilled" /\ calls[id].resolvers > 0

\* C31: when the deadline of a tryAcquire passes after its entry left the
\* queue through interrupt or releaseAll, the step changes neither
\* permitsAvailable nor the queue.
C31_DeadlineAfterReset ==
    [][\A id \in 1 .. Len(calls) :
        (TimeoutOf(id) /\ LeftByReset(id)) =>
            /\ permitsAvailable' = permitsAvailable
            /\ queue' = queue]_vars

\* the timers that are started and have not fired
Armed(cs) == {i \in 1 .. Len(cs) : cs[i].timer = "armed"}

\* C32: tryAcquire(timeout, n) with n > permitsAvailable = p leaves
\* permitsAvailable at 0 and appends one entry with n - p outstanding units
\* at the tail of the queue (queueLength + 1, permitsRequired + n - p, the
\* entries already queued untouched), with one more timer started.
C32_TryAcquireReserves ==
    [][(/\ last'.op = "tryAcquire" /\ last'.err = "none"
        /\ Param(last'.arg, 1) > permitsAvailable) =>
            LET n == Param(last'.arg, 1)
                p == permitsAvailable
                id == Len(calls) + 1
            IN  /\ last'.id = id
                /\ permitsAvailable' = 0
                /\ queue' = Append(queue, id)
                /\ queueLength' = queueLength + 1
                /\ permitsRequired' = permitsRequired + n - p
                /\ calls'[id].state = "pending"
                /\ calls'[id].resolvers = n - p
                /\ calls'[id].permitsBck = p
                /\ SubSeq(calls', 1, Len(calls)) = calls
                /\ Armed(calls') = Armed(calls) \cup {id}]_vars

\* C32 witness: a tryAcquire(t, 2) has just found one permit in the counter
\* and another entry in the queue: it took the permit and is queued behind
\* that entry for the permit it lacks.
C32_Witness ==
    /\ last.op = "tryAcquire"
    /\ last.id = 3
    /\ queue = <<2, 3>>
    /\ calls[3].n = 2
    /\ calls[3].permitsBck = 1
    /\ calls[3].resolvers = 1
    /\ calls[3].timer = "armed"
    /\ permitsAvailable = 0

\* C33: every entry of the queue has at least one outstanding unit and its
\* call is pending, so queueLength <= permitsRequired and queueLength is 0
\* exactly when permitsRequired is 0.
C33_QueuedHaveOutstanding ==
    /\ \A k \in 1 .. Len(queue) :
        /\ calls[queue[k]].resolvers >= 1
        /\ calls[queue[k]].state = "pending"
    /\ queueLength <= permitsRequired
    /\ (queueLength = 0) <=> (permitsRequired = 0)

\* C33 witness: two entries are queued and the one at the head has received
\* one of the two units it waits for.
C33_Witness ==
    /\ Len(queue) = 2
    /\ calls[queue[1]].units = 2
    /\ calls[queue[1]].unitsResolved = 1
    /\ calls[queue[1]].resolvers = 1
    /\ last.op = "release"

\* C34: a call of acquire/tryAcquire settles at most once: once resolved it
\* stays resolved, once rejected it keeps its error and reason, is in the
\* queue no more and receives no unit from a later release; a pending call
\* is rejected by its own timer or by interrupt only, and an acquire never
\* ends with the timeout error.
C34_SettlesOnce ==
    [][\A id \in 1 .. Len(calls) :
        /\ calls[id].state # "pending" =>
                /\ calls'[id].state = calls[id].state
                /\ calls'[id].error = calls[id].error
                /\ calls'[id].reason = calls[id].reason
        /\ calls[id].state = "rejected" =>
                /\ calls'[id].unitsResolved = calls[id].unitsResolved
                /\ calls'[id].resolvers = calls[id].resolvers
                /\ ~InQueue(queue', id)
        /\ calls'[id].state = "fulfilled" => calls'[id].error = "none"
        /\ (calls[id].state = "pending" /\ calls'[id].state = "rejected") =>
                \/ TimeoutOf(id) /\ calls'[id].error = "timeout"
                                 /\ calls[id].kind = "tryAcquire"
                \/ last'.op = "interrupt" /\ calls'[id].error = "interrupted"
        /\ calls[id].kind = "acquire" => calls'[id].error # "timeout"]_vars

\* C34 witness: the timer of a tryAcquire fired after the call had resolved,
\* and release was called after another call had been rejected: the first
\* is still resolved, the second still rejected.
C34_Witness ==
    /\ Len(calls) = 2
    /\ \E a, b \in 1 .. 2 :
        /\ calls[a].state = "fulfilled"
        /\ calls[a].timer = "fired"
        /\ calls[b].state = "rejected"
        /\ calls[b].error = "interrupted"
    /\ last.op = "release"
    /\ last.err = "none"
    /\ Param(last.arg, 1) >= 1

\* C35: the permit count of the mutex's semaphore is 0 or 1.
C35_MutexPermitBinary == permitsAvailable \in {0, 1}

PendingCalls(cs) == {i \in 1 .. Len(cs) : cs[i].state = "pending"}

\* C37: queueLength is the number of pending lock()/tryLock() calls; an
\* unlock() with calls waiting resolves the oldest of them and no other,
\* lowers queueLength by 1 and leaves the permit count as it is; and the
\* permit count only rises with an unlock() made when no call is waiting.
C37_MutexHandOff ==
    [][/\ queueLength' = Cardinality(PendingCalls(calls'))
       /\ (last'.op = "unlock" /\ queue # <<>>) =>
            /\ calls'[Head(queue)].state = "fulfilled"
            /\ PendingCalls(calls') = PendingCalls(calls) \ {Head(queue)}
            /\ queue' = Tail(queue)
            /\ queueLength' = queueLength - 1
            /\ permitsAvailable' = permitsAvailable
            /\ holders' = (holders \ {last'.id}) \cup {Head(queue)}
       /\ (last'.op = "unlock" /\ queue = <<>>) =>
            /\ permitsAvailable' = permitsAvailable + 1
            /\ calls' = calls
       /\ permitsAvailable' > permitsAvailable =>
            last'.op = "unlock" /\ queue = <<>>]_vars

\* the units still to deliver before the queued call id is resolved: its own
\* outstanding units and those of the entries ahead of it
Ahead(q, cs, id) == SumResolvers(SubSeq(q, 1, FindIndex(q, id, 1)), cs)

\* C38: a queued acquire resolves in the release step that delivers the last
\* of the units outstanding for it and for the entries ahead of it; until
\* then it stays queued, every release(n) lowers that number by at least n,
\* and no other step (a later arrival, a timeout of another entry) raises
\* it.  In a run without interrupt the call is therefore resolved as soon
\* as the released permits total the number it had when it was queued.
C38_NoStarvation ==
    [][\A id \in 1 .. Len(calls) :
        (InQueue(queue, id) /\ calls[id].kind = "acquire") =>
            LET n == IF last'.op = "release" THEN Param(last'.arg, 1) ELSE 0
            IN  IF n >= Ahead(queue, calls, id)
                THEN calls'[id].state = "fulfilled"
                ELSE /\ calls'[id].state = "pending"
                     /\ InQueue(queue', id)
                     /\ Ahead(queue', calls', id) <= Ahead(queue, calls, id) - n]_vars

\* C38 witness: an acquire(2) was queued behind a tryAcquire that received
\* a unit and then timed out, another call arrived behind it, and the
\* releases made since have resolved the acquire while the later call still
\* waits.
C38_Witness ==
    /\ Len(calls) = 3
    /\ calls[1].kind = "tryAcquire"
    /\ calls[1].error = "timeout"
    /\ calls[1].unitsResolved = 1
    /\ calls[2].kind = "acquire"
    /\ calls[2].units = 2
    /\ calls[2].state = "fulfilled"
    /\ hist[2].released = 3
    /\ queue = <<3>>

\* n successive release(1)
RECURSIVE Successive(_, _)
Successive(s, n) == IF n = 0 THEN s ELSE Successive(release(s, 1), n - 1)

\* C39: release is additive: from every state of the semaphore and for all
\* a, b >= 0, release(a + b) gives the same permitsAvailable, the same
\* queue with the same outstanding units and the same resolved calls as
\* release(a) followed by release(b); release(n) is n successive
\* release(1).
C39_ReleaseAdditive ==
    \A a, b \in 0 .. MaxArg :
        /\ release(Sem, a + b) = release(release(Sem, a), b)
        /\ release(Sem, a + b) = Successive(Sem, a + b)

\* C39 witness: release(1) has just delivered one of the two units of the
\* head entry and a second entry waits for two: release(2) from here
\* resolves the head and delivers one unit to the entry behind it.
C39_Witness ==
    /\ last.op = "release"
    /\ Param(last.arg, 1) = 1
    /\ Len(queue) = 2
    /\ calls[queue[1]].resolvers = 1
    /\ calls[queue[1]].unitsResolved = 1
    /\ calls[queue[2]].resolvers = 2
    /\ release(Sem, 2).queue = <<queue[2]>>
    /\ release(Sem, 2).calls[queue[1]].state = "fulfilled"
    /\ release(Sem, 2).calls[queue[2]].resolvers = 1
    /\ release(Sem, 2).permits = 0

====
